---- MODULE Spec2Model ----
(***************************************************************************)
(* Model of dagitron's DependencyResolver (src/dagitron/dependencies.py).  *)
(*                                                                         *)
(* A caller holds a task list (tasks_config), calls resolve_dependencies   *)
(* on it and, when a dependency map comes back, calls the four derived     *)
(* operations on that map.  Every resolver method is a pure function of    *)
(* its argument, so each is an operator computed the way the Python code   *)
(* computes it (same loops, same iteration order of lists and of dict      *)
(* keys), and one action per method stores what the call returned.         *)
(*                                                                         *)
(* A Python dict is modelled as an ordered dictionary: a record            *)
(*   [keys |-> sequence of keys in insertion order, val |-> function]      *)
(* because the code's results depend on dict iteration order.              *)
(***************************************************************************)
EXTENDS Integers, Sequences, FiniteSets, TLC

VARIABLES
    tasks_config,     \* the argument handed to resolve_dependencies
    resolved,         \* <<>> before the call, <<outcome>> after it
    execution_order,  \* <<>> / <<list returned by get_execution_order>>
    task_levels,      \* <<>> / <<dict returned by get_task_levels>>
    parallel_groups,  \* <<>> / <<list returned by get_parallel_groups>>
    acyclic,          \* <<>> / <<bool returned by validate_acyclic>>
    given_map,        \* a dependency map a caller built itself
    given_acyclic,    \* <<>> / <<bool returned by validate_acyclic(given_map)>>
    setup,            \* <<>> / <<what DagGenerator._setup_dependencies did>>
    spec_valid,       \* <<>> / <<how DagGenerator.validate_dag_spec ended>>
    validated,        \* <<>> / <<how the custom checks of YamlDagParser.validate ended>>
    calls             \* the resolver calls in progress, each with its own locals

\* What a caller of the resolver holds.
callerVars == <<tasks_config, resolved, execution_order, task_levels, parallel_groups, acyclic>>

\* What a caller holds that passes a map of its own.
givenVars == <<given_map, given_acyclic>>

\* What a DagGenerator and a YamlDagParser did with the task list.
generatorVars == <<setup, spec_valid, validated>>

vars == <<callerVars, givenVars, generatorVars, calls>>

----------------------------------------------------------------------------
(* Bounds of the model *)

\* Largest number of task records in an input list.
MaxTasks == 3

\* Largest size of an input list: its dependency entries, plus its records
\* whose depends_on is absent or None.
MaxEdges == 3

\* Largest number of nested activations of dfs or get_level a call is
\* followed to (more than any call on a map without a cycle needs).
MaxDepth == 5

----------------------------------------------------------------------------
(* Inputs *)

\* The i-th record of an input list is named AllNames[i]: names are unique,
\* and every labelled graph in every key order is covered because the
\* dependency entries range over all names.
AllNames == <<"a", "b", "c", "d", "e", "f">>

\* A name that no record of any input list carries.
Ghost == "ghost"

DepNames == {AllNames[i] : i \in 1..MaxTasks} \cup {Ghost}

\* The forms of a depends_on field: a list, a single string, None, or no key.
Forms == {"list", "str", "none", "absent"}

\* The depends_on field in the given form holding the given entries.
DependsOnValue(form, entries) ==
    [kind  |-> form,
     name  |-> IF form = "str" THEN entries[1] ELSE "",
     items |-> IF form = "list" THEN entries ELSE <<>>]

\* A string holds one name; None and an absent key hold none.
FormFits(form, count) ==
    CASE form = "str" -> count = 1
      [] form \in {"none", "absent"} -> count = 0
      [] OTHER -> TRUE

\* An input list is laid out by its dependency entries in reading order:
\* owners[j] is the index of the record that holds the j-th entry and deps[j]
\* the name it holds.
EntriesOf(owners, deps, i) ==
    LET at == SelectSeq([j \in DOMAIN owners |-> j], LAMBDA j : owners[j] = i)
    IN [m \in DOMAIN at |-> deps[at[m]]]

TaskList(n, owners, deps, forms) ==
    [i \in 1..n |-> [name       |-> AllNames[i],
                     depends_on |-> DependsOnValue(forms[i], EntriesOf(owners, deps, i))]]

\* tasks_config is one of the input lists within the bounds.
IsInput(config) ==
    \E n \in 0..MaxTasks, e \in 0..MaxEdges :
      \E owners \in [1..e -> 1..n] :
        /\ \A j \in 1..(e - 1) : owners[j] <= owners[j + 1]
        /\ \E forms \in [1..n -> Forms] :
             /\ \A i \in 1..n : FormFits(forms[i], Cardinality({j \in 1..e : owners[j] = i}))
             /\ e + Cardinality({i \in 1..n : forms[i] \in {"none", "absent"}}) <= MaxEdges
             /\ \E deps \in [1..e -> DepNames] :
                  config = TaskList(n, owners, deps, forms)

----------------------------------------------------------------------------
(* Python dicts and lists *)

EmptyDict == [keys |-> <<>>, val |-> <<>>]

SeqToSet(s) == {s[i] : i \in DOMAIN s}

KeySet(d) == SeqToSet(d.keys)

\* Faulty variant of DictSet: a list assigned to an existing key is appended
\* to the list the key holds.
DictSetExtending(d, k, v) ==
    [keys |-> IF k \in KeySet(d) THEN d.keys ELSE Append(d.keys, k),
     val  |-> (k :> (IF k \in KeySet(d) THEN d.val[k] \o v ELSE v)) @@ d.val]

\* d[k] = v : a new key goes last, an existing key keeps its place.
DictSet(d, k, v) ==
    [keys |-> IF k \in KeySet(d) THEN d.keys ELSE Append(d.keys, k),
     val  |-> (k :> v) @@ d.val]

\* d.get(k, default)
DictGet(d, k, default) == IF k \in KeySet(d) THEN d.val[k] ELSE default

\* list.index(x): the smallest index holding x (x is in the list).
ListIndex(s, x) == CHOOSE i \in DOMAIN s : s[i] = x /\ \A j \in 1..(i - 1) : s[j] # x

\* Faulty variant of ListMax: the last value instead of the largest.
ListLast(s) == s[Len(s)]

\* max(...) of a non-empty list of integers
ListMax(s) == CHOOSE m \in SeqToSet(s) : \A x \in SeqToSet(s) : x <= m

\* Faulty variant of Sorted: descending order.
RECURSIVE SortedDescending(_)
SortedDescending(S) ==
    IF S = {} THEN <<>>
    ELSE LET m == CHOOSE x \in S : \A y \in S : y <= x
         IN <<m>> \o SortedDescending(S \ {m})

\* sorted(...) of a set of integers
RECURSIVE Sorted(_)
Sorted(S) ==
    IF S = {} THEN <<>>
    ELSE LET m == CHOOSE x \in S : \A y \in S : x <= y
         IN <<m>> \o Sorted(S \ {m})

----------------------------------------------------------------------------
(* resolve_dependencies *)

\* task_names = {task["name"] for task in tasks_config}
task_names(config) == {config[i].name : i \in DOMAIN config}

\* Faulty variant of normalize_depends_on: a single string is not wrapped
\* into a list but dropped.
normalize_dropping_str(d) ==
    IF d.kind = "list" THEN d.items ELSE <<>>

\* task.get("depends_on", []) followed by the normalisation to a list.
normalize_depends_on(d) ==
    IF d.kind = "absent" THEN <<>>
    ELSE IF d.kind = "str" THEN <<d.name>>
    ELSE IF d.kind = "none" THEN <<>>
    ELSE d.items

\* Faulty variant of first_missing: the loop goes on after an undeclared name and the
\* last one found is reported.
RECURSIVE first_missing_reports_last(_, _, _)
first_missing_reports_last(depends_on, names, j) ==
    IF j > Len(depends_on) THEN 0
    ELSE LET later == first_missing_reports_last(depends_on, names, j + 1)
         IN IF later # 0 THEN later
            ELSE IF depends_on[j] \notin names THEN j ELSE 0

\* for dep in depends_on: if dep not in task_names: raise ...
\* The index of the first dependency that is no declared name, 0 when all are.
RECURSIVE first_missing(_, _, _)
first_missing(depends_on, names, j) ==
    IF j > Len(depends_on) THEN 0
    ELSE IF depends_on[j] \notin names THEN j
    ELSE first_missing(depends_on, names, j + 1)

Returned(dependencies) ==
    [kind |-> "ok", dependencies |-> dependencies, task |-> "", dep |-> "", cycle |-> <<>>]

\* MissingTaskError(f"Task '{task_name}' depends on non-existent task '{dep}'")
MissingTaskError(task_name, dep) ==
    [kind |-> "MissingTaskError", dependencies |-> EmptyDict,
     task |-> task_name, dep |-> dep, cycle |-> <<>>]

\* CircularDependencyError(f"Circular dependency detected: {' -> '.join(cycle)}")
CircularDependencyError(cycle) ==
    [kind |-> "CircularDependencyError", dependencies |-> EmptyDict,
     task |-> "", dep |-> "", cycle |-> cycle]

\* The loop "for task in tasks_config" from record i on, with the map built so far.
RECURSIVE build_dependencies(_, _, _, _)
build_dependencies(config, names, i, dependencies) ==
    IF i > Len(config) THEN Returned(dependencies)
    ELSE LET task_name  == config[i].name
             depends_on == normalize_depends_on(config[i].depends_on)
             j          == first_missing(depends_on, names, 1)
         IN IF j # 0
            THEN MissingTaskError(task_name, depends_on[j])
            ELSE build_dependencies(config, names, i + 1,
                                    DictSet(dependencies, task_name, depends_on))

----------------------------------------------------------------------------
(* _check_circular_dependencies *)

WHITE == 0
GRAY == 1
BLACK == 2

\* The check's local state: the colour map, the DFS path, and whether
\* CircularDependencyError has been raised (with the chain it carries).
RECURSIVE dfs(_, _, _)
RECURSIVE dfs_dependencies(_, _, _, _)

\* Faulty variant of dfs: the chain reported is the whole path, not the part
\* from the earlier occurrence of the task on.
dfs_reports_whole_path(dependencies, task, st) ==
    IF st.colors[task] = GRAY
    THEN [st EXCEPT !.raised = TRUE, !.cycle = st.path \o <<task>>]
    ELSE IF st.colors[task] = BLACK
    THEN st
    ELSE LET entered == [st EXCEPT !.colors[task] = GRAY, !.path = Append(@, task)]
             visited == dfs_dependencies(dependencies, task, 1, entered)
         IN IF visited.raised
            THEN visited
            ELSE [visited EXCEPT !.path = SubSeq(@, 1, Len(@) - 1),
                                 !.colors[task] = BLACK]

\* Faulty variant of dfs: a finished task is taken for one in progress.
dfs_finished_is_cycle(dependencies, task, st) ==
    IF st.colors[task] # WHITE
    THEN [st EXCEPT !.raised = TRUE, !.cycle = st.path \o <<task>>]
    ELSE LET entered == [st EXCEPT !.colors[task] = GRAY, !.path = Append(@, task)]
             visited == dfs_dependencies(dependencies, task, 1, entered)
         IN IF visited.raised
            THEN visited
            ELSE [visited EXCEPT !.path = SubSeq(@, 1, Len(@) - 1),
                                 !.colors[task] = BLACK]

\* def dfs(task), in state st; the state it leaves behind.
dfs(dependencies, task, st) ==
    IF st.colors[task] = GRAY
    THEN LET cycle_start == ListIndex(st.path, task)
             cycle == SubSeq(st.path, cycle_start, Len(st.path)) \o <<task>>
         IN [st EXCEPT !.raised = TRUE, !.cycle = cycle]
    ELSE IF st.colors[task] = BLACK
    THEN st
    ELSE LET entered == [st EXCEPT !.colors[task] = GRAY, !.path = Append(@, task)]
             visited == dfs_dependencies(dependencies, task, 1, entered)
         IN IF visited.raised
            THEN visited
            ELSE [visited EXCEPT !.path = SubSeq(@, 1, Len(@) - 1),
                                 !.colors[task] = BLACK]

\* for dependency in dependencies[task]: dfs(dependency), from the i-th on.
\* A raised error leaves the loop.
dfs_dependencies(dependencies, task, i, st) ==
    IF st.raised \/ i > Len(dependencies.val[task]) THEN st
    ELSE dfs_dependencies(dependencies, task, i + 1,
                          dfs(dependencies, dependencies.val[task][i], st))

\* for task in dependencies: if colors[task] == WHITE: dfs(task), from the i-th key on.
RECURSIVE dfs_roots(_, _, _)
dfs_roots(dependencies, i, st) ==
    IF st.raised \/ i > Len(dependencies.keys) THEN st
    ELSE LET task == dependencies.keys[i]
         IN dfs_roots(dependencies, i + 1,
                      IF st.colors[task] = WHITE THEN dfs(dependencies, task, st) ELSE st)

\* Faulty variant of check_circular_dependencies: the DFS is started from
\* the first task only.
check_first_root_only(dependencies) ==
    LET st == [colors |-> [task \in KeySet(dependencies) |-> WHITE],
               path   |-> <<>>,
               raised |-> FALSE,
               cycle  |-> <<>>]
    IN IF dependencies.keys = <<>> THEN st
       ELSE dfs(dependencies, dependencies.keys[1], st)

\* The final state of the check; raised says whether it raised.
check_circular_dependencies(dependencies) ==
    dfs_roots(dependencies, 1,
              [colors |-> [task \in KeySet(dependencies) |-> WHITE],
               path   |-> <<>>,
               raised |-> FALSE,
               cycle  |-> <<>>])

\* Faulty variant of resolve_dependencies: the map is returned without the
\* existence check and without the cycle check.
resolve_without_validation(config) ==
    Returned([keys |-> [i \in DOMAIN config |-> config[i].name],
              val  |-> [name \in task_names(config) |->
                          normalize_depends_on(
                              config[CHOOSE i \in DOMAIN config : config[i].name = name].depends_on)]])

\* Faulty variant of resolve_dependencies: the map is returned unchecked.
resolve_without_cycle_check(config) ==
    build_dependencies(config, task_names(config), 1, EmptyDict)

\* Faulty variant of resolve_dependencies: cycles among the declared tasks are looked
\* for before the dependencies are checked for existence.
resolve_checking_cycles_first(config) ==
    LET names == task_names(config)
        declared == [keys |-> [i \in DOMAIN config |-> config[i].name],
                     val  |-> [name \in names |->
                                 SelectSeq(normalize_depends_on(
                                     config[CHOOSE i \in DOMAIN config : config[i].name = name].depends_on),
                                     LAMBDA dep : dep \in names)]]
        check == check_circular_dependencies(declared)
    IN IF check.raised
       THEN CircularDependencyError(check.cycle)
       ELSE build_dependencies(config, names, 1, EmptyDict)

resolve_dependencies(config) ==
    LET built == build_dependencies(config, task_names(config), 1, EmptyDict)
    IN IF built.kind # "ok" THEN built
       ELSE LET check == check_circular_dependencies(built.dependencies)
            IN IF check.raised
               THEN CircularDependencyError(check.cycle)
               ELSE Returned(built.dependencies)

\* try: self._check_circular_dependencies(dependencies); return True
\* except CircularDependencyError: return False
validate_acyclic(dependencies) ==
    ~check_circular_dependencies(dependencies).raised

----------------------------------------------------------------------------
(* get_execution_order *)

\* in_degree after the counting loop: one increment per entry of the task's list.
initial_in_degree(dependencies) ==
    [task \in KeySet(dependencies) |-> Len(dependencies.val[task])]

\* Faulty variant of initial_queue: every task is queued, whatever its in-degree.
initial_queue_all_tasks(dependencies, in_degree) == dependencies.keys

\* queue = [task for task, degree in in_degree.items() if degree == 0]
initial_queue(dependencies, in_degree) ==
    SelectSeq(dependencies.keys, LAMBDA task : in_degree[task] = 0)

\* Faulty variant of update_in_degrees: a task is queued at every decrement,
\* without the test for zero.
RECURSIVE update_in_degrees_queueing_always(_, _, _, _)
update_in_degrees_queueing_always(dependencies, task, i, st) ==
    IF i > Len(dependencies.keys) THEN st
    ELSE LET other_task == dependencies.keys[i]
             deps == dependencies.val[other_task]
         IN IF task \in SeqToSet(deps)
            THEN update_in_degrees_queueing_always(dependencies, task, i + 1,
                      [st EXCEPT !.in_degree[other_task] = @ - 1,
                                 !.queue = Append(@, other_task)])
            ELSE update_in_degrees_queueing_always(dependencies, task, i + 1, st)

\* for other_task, deps in dependencies.items(): ..., from the i-th key on,
\* after `task` was popped; st holds in_degree and queue.
RECURSIVE update_in_degrees(_, _, _, _)
update_in_degrees(dependencies, task, i, st) ==
    IF i > Len(dependencies.keys) THEN st
    ELSE LET other_task == dependencies.keys[i]
             deps == dependencies.val[other_task]
         IN IF task \in SeqToSet(deps)
            THEN LET degree == st.in_degree[other_task] - 1
                 IN update_in_degrees(dependencies, task, i + 1,
                      [st EXCEPT !.in_degree[other_task] = degree,
                                 !.queue = IF degree = 0 THEN Append(@, other_task) ELSE @])
            ELSE update_in_degrees(dependencies, task, i + 1, st)

\* One iteration of "while queue".
kahn_step(dependencies, st) ==
    LET task == Head(st.queue)
        popped == [st EXCEPT !.queue = Tail(@), !.result = Append(@, task)]
    IN update_in_degrees(dependencies, task, 1, popped)

RECURSIVE kahn_loop(_, _)
kahn_loop(dependencies, st) ==
    IF st.queue = <<>> THEN st
    ELSE kahn_loop(dependencies, kahn_step(dependencies, st))

get_execution_order(dependencies) ==
    LET in_degree == initial_in_degree(dependencies)
    IN kahn_loop(dependencies,
                 [in_degree |-> in_degree,
                  queue     |-> initial_queue(dependencies, in_degree),
                  result    |-> <<>>]).result

----------------------------------------------------------------------------
(* get_task_levels *)

RECURSIVE get_level(_, _, _)
RECURSIVE dep_levels(_, _, _, _)

\* Faulty variant of get_level: a task gets the largest level of its dependencies,
\* without the increment.
get_level_without_increment(dependencies, task, levels) ==
    IF task \in KeySet(levels)
    THEN [levels |-> levels, value |-> levels.val[task]]
    ELSE LET deps == DictGet(dependencies, task, <<>>)
         IN IF deps = <<>>
            THEN [levels |-> DictSet(levels, task, 0), value |-> 0]
            ELSE LET got == dep_levels(dependencies, deps, 1, [levels |-> levels, values |-> <<>>])
                     max_dep_level == ListMax(got.values)
                 IN [levels |-> DictSet(got.levels, task, max_dep_level),
                     value  |-> max_dep_level]

\* def get_level(task) with the memo `levels` as it stands; gives the memo it
\* leaves behind and the value it returns.
get_level(dependencies, task, levels) ==
    IF task \in KeySet(levels)
    THEN [levels |-> levels, value |-> levels.val[task]]
    ELSE LET deps == DictGet(dependencies, task, <<>>)
         IN IF deps = <<>>
            THEN [levels |-> DictSet(levels, task, 0), value |-> 0]
            ELSE LET got == dep_levels(dependencies, deps, 1, [levels |-> levels, values |-> <<>>])
                     max_dep_level == ListMax(got.values)
                 IN [levels |-> DictSet(got.levels, task, max_dep_level + 1),
                     value  |-> max_dep_level + 1]

\* Faulty variant of dep_levels: only the first dependency is asked for its level.
dep_levels_first_only(dependencies, deps, i, acc) ==
    LET r == get_level(dependencies, deps[1], acc.levels)
    IN [levels |-> r.levels, values |-> <<r.value>>]

\* The generator (get_level(dep) for dep in deps), from the i-th entry on:
\* the memo after the calls and the values they returned, in order.
dep_levels(dependencies, deps, i, acc) ==
    IF i > Len(deps) THEN acc
    ELSE LET r == get_level(dependencies, deps[i], acc.levels)
         IN dep_levels(dependencies, deps, i + 1,
                       [levels |-> r.levels, values |-> Append(acc.values, r.value)])

\* for task in dependencies: get_level(task), from the i-th key on.
RECURSIVE levels_loop(_, _, _)
levels_loop(dependencies, i, levels) ==
    IF i > Len(dependencies.keys) THEN levels
    ELSE levels_loop(dependencies, i + 1,
                     get_level(dependencies, dependencies.keys[i], levels).levels)

get_task_levels(dependencies) == levels_loop(dependencies, 1, EmptyDict)

----------------------------------------------------------------------------
(* get_parallel_groups *)

\* Faulty variant of group_by_level: groups[level] = [task] replaces the group.
RECURSIVE group_by_level_overwriting(_, _, _)
group_by_level_overwriting(levels, i, groups) ==
    IF i > Len(levels.keys) THEN groups
    ELSE LET task  == levels.keys[i]
             level == levels.val[task]
         IN group_by_level_overwriting(levels, i + 1, DictSet(groups, level, <<task>>))

\* for task, level in levels.items(): groups[level].append(task), from the
\* i-th item on; groups is a dict keyed by level.
RECURSIVE group_by_level(_, _, _)
group_by_level(levels, i, groups) ==
    IF i > Len(levels.keys) THEN groups
    ELSE LET task  == levels.keys[i]
             level == levels.val[task]
             group == IF level \in KeySet(groups) THEN groups.val[level] ELSE <<>>
         IN group_by_level(levels, i + 1, DictSet(groups, level, Append(group, task)))

\* Faulty variant of groups_in_level_order: the levels are taken in descending order.
groups_in_descending_level_order(groups) ==
    LET order == Sorted(KeySet(groups))
    IN [n \in DOMAIN order |-> groups.val[order[Len(order) + 1 - n]]]

\* [groups[level] for level in sorted(groups.keys())]
groups_in_level_order(groups) ==
    LET order == Sorted(KeySet(groups))
    IN [n \in DOMAIN order |-> groups.val[order[n]]]

get_parallel_groups(dependencies) ==
    groups_in_level_order(group_by_level(get_task_levels(dependencies), 1, EmptyDict))

----------------------------------------------------------------------------
(* The caller *)

NotCalled == <<>>

\* No map of the caller's own, no generator at work.
NoGivenMap == given_map = EmptyDict /\ given_acyclic = NotCalled

NoGenerator == setup = NotCalled /\ spec_valid = NotCalled /\ validated = NotCalled

\* No call of a resolver method is in progress.
NoCalls == calls = <<>>

NothingResolved ==
    /\ resolved = NotCalled
    /\ execution_order = NotCalled
    /\ task_levels = NotCalled
    /\ parallel_groups = NotCalled
    /\ acyclic = NotCalled

Init ==
    /\ IsInput(tasks_config)
    /\ NothingResolved
    /\ NoGivenMap
    /\ NoGenerator
    /\ NoCalls

\* dependencies = resolver.resolve_dependencies(tasks_config)
ResolveDependencies ==
    /\ resolved = NotCalled
    /\ resolved' = <<resolve_dependencies(tasks_config)>>
    /\ UNCHANGED <<tasks_config, execution_order, task_levels, parallel_groups, acyclic>>
    /\ UNCHANGED <<givenVars, generatorVars, calls>>

\* resolve_dependencies returned a map (it did not raise).
HasMap == resolved # NotCalled /\ resolved[1].kind = "ok"

\* The map the caller holds.
dependency_map == resolved[1].dependencies

\* Faulty variant of GetExecutionOrder: the call removes every task it emits
\* from the dependency lists of the map it was given.
GetExecutionOrderConsumingLists ==
    /\ HasMap
    /\ execution_order = NotCalled
    /\ LET order == get_execution_order(dependency_map)
       IN /\ execution_order' = <<order>>
          /\ resolved' = <<Returned(
                [keys |-> dependency_map.keys,
                 val  |-> [t \in KeySet(dependency_map) |->
                             SelectSeq(dependency_map.val[t],
                                       LAMBDA d : d \notin SeqToSet(order))]])>>
    /\ UNCHANGED <<tasks_config, task_levels, parallel_groups, acyclic>>
    /\ UNCHANGED <<givenVars, generatorVars, calls>>

\* resolver.get_execution_order(dependencies)
GetExecutionOrder ==
    /\ HasMap
    /\ execution_order = NotCalled
    /\ execution_order' = <<get_execution_order(dependency_map)>>
    /\ UNCHANGED <<tasks_config, resolved, task_levels, parallel_groups, acyclic>>
    /\ UNCHANGED <<givenVars, generatorVars, calls>>

\* resolver.get_task_levels(dependencies)
GetTaskLevels ==
    /\ HasMap
    /\ task_levels = NotCalled
    /\ task_levels' = <<get_task_levels(dependency_map)>>
    /\ UNCHANGED <<tasks_config, resolved, execution_order, parallel_groups, acyclic>>
    /\ UNCHANGED <<givenVars, generatorVars, calls>>

\* resolver.get_parallel_groups(dependencies)
GetParallelGroups ==
    /\ HasMap
    /\ parallel_groups = NotCalled
    /\ parallel_groups' = <<get_parallel_groups(dependency_map)>>
    /\ UNCHANGED <<tasks_config, resolved, execution_order, task_levels, acyclic>>
    /\ UNCHANGED <<givenVars, generatorVars, calls>>

\* resolver.validate_acyclic(dependencies)
ValidateAcyclic ==
    /\ HasMap
    /\ acyclic = NotCalled
    /\ acyclic' = <<validate_acyclic(dependency_map)>>
    /\ UNCHANGED <<tasks_config, resolved, execution_order, task_levels, parallel_groups>>
    /\ UNCHANGED <<givenVars, generatorVars, calls>>

Next ==
    \/ ResolveDependencies
    \/ GetExecutionOrder
    \/ GetTaskLevels
    \/ GetParallelGroups
    \/ ValidateAcyclic

Spec == Init /\ [][Next]_vars

----------------------------------------------------------------------------
(* A caller that passes a dependency map of its own *)

\* The i-th key of a given map is AllNames[i]; every dependency entry names a
\* key (the map is referentially closed); cycles are allowed.
GivenMap(n, owners, deps) ==
    [keys |-> [i \in 1..n |-> AllNames[i]],
     val  |-> [name \in {AllNames[i] : i \in 1..n} |->
                 EntriesOf(owners, deps, CHOOSE i \in 1..n : AllNames[i] = name)]]

IsGivenMap(m) ==
    \E n \in 0..MaxTasks, e \in 0..MaxEdges :
      \E owners \in [1..e -> 1..n] :
        /\ \A j \in 1..(e - 1) : owners[j] <= owners[j + 1]
        /\ \E deps \in [1..e -> {AllNames[i] : i \in 1..n}] :
             m = GivenMap(n, owners, deps)

InitGiven ==
    /\ tasks_config = <<>>
    /\ NothingResolved
    /\ IsGivenMap(given_map)
    /\ given_acyclic = NotCalled
    /\ NoGenerator
    /\ NoCalls

\* resolver.validate_acyclic(dependencies) on the caller's own map
ValidateGiven ==
    /\ given_acyclic = NotCalled
    /\ given_acyclic' = <<validate_acyclic(given_map)>>
    /\ UNCHANGED <<callerVars, given_map, generatorVars, calls>>

NextGiven == ValidateGiven

SpecGiven == InitGiven /\ [][NextGiven]_vars

----------------------------------------------------------------------------
(* DagGenerator: _setup_dependencies and validate_dag_spec *)

\* for task_name, task_deps in dependencies.items(): if task_deps:
\*     task.set_upstream([tasks[dep] for dep in task_deps])
\* from the i-th item on; made lists the set_upstream calls made so far.
\* An operator object of the tasks dict is identified by its task name.
RECURSIVE set_upstream_calls(_, _, _)
set_upstream_calls(dependencies, i, made) ==
    IF i > Len(dependencies.keys) THEN made
    ELSE LET task_name == dependencies.keys[i]
             task_deps == dependencies.val[task_name]
         IN set_upstream_calls(dependencies, i + 1,
               IF task_deps # <<>>
               THEN Append(made, [task |-> task_name, upstream_tasks |-> task_deps])
               ELSE made)

\* Faulty variant of setup_dependencies: the links are set from the records
\* as they are read, before the list as a whole has been resolved.
setup_linking_before_resolving(config) ==
    LET outcome == resolve_dependencies(config)
        declared == [keys |-> [i \in DOMAIN config |-> config[i].name],
                     val  |-> [name \in task_names(config) |->
                                 normalize_depends_on(
                                     config[CHOOSE i \in DOMAIN config : config[i].name = name].depends_on)]]
    IN [raised |-> IF outcome.kind = "ok" THEN "" ELSE outcome.kind,
        calls  |-> set_upstream_calls(declared, 1, <<>>)]

\* _setup_dependencies(tasks_config, tasks): an error of resolve_dependencies
\* leaves the method before its loop.
setup_dependencies(config) ==
    LET outcome == resolve_dependencies(config)
    IN IF outcome.kind # "ok"
       THEN [raised |-> outcome.kind, calls |-> <<>>]
       ELSE [raised |-> "", calls |-> set_upstream_calls(outcome.dependencies, 1, <<>>)]

\* parser.get_tasks_config(dag_spec)
get_tasks_config(dag_spec) == dag_spec.tasks

\* Faulty variant of validate_dag_spec: only MissingTaskError is caught.
validate_catching_missing_only(dag_spec) ==
    LET outcome == resolve_dependencies(get_tasks_config(dag_spec))
    IN IF outcome.kind = "CircularDependencyError"
       THEN [raised |-> outcome.kind, value |-> FALSE]
       ELSE [raised |-> "", value |-> outcome.kind = "ok"]

\* validate_dag_spec(dag_spec): True when resolve_dependencies returns,
\* False on any exception.
validate_dag_spec(dag_spec) ==
    LET outcome == resolve_dependencies(get_tasks_config(dag_spec))
    IN [raised |-> "", value |-> outcome.kind = "ok"]

\* self._setup_dependencies(tasks_config, tasks)
SetupDependencies ==
    /\ setup = NotCalled
    /\ setup' = <<setup_dependencies(tasks_config)>>
    /\ UNCHANGED <<callerVars, givenVars, spec_valid, validated, calls>>

\* generator.validate_dag_spec(dag_spec), the spec holding the task list
ValidateDagSpec ==
    /\ spec_valid = NotCalled
    /\ spec_valid' = <<validate_dag_spec([tasks |-> tasks_config])>>
    /\ UNCHANGED <<callerVars, givenVars, setup, validated, calls>>

NextGenerator ==
    \/ SetupDependencies
    \/ ValidateDagSpec

SpecGenerator == Init /\ [][NextGenerator]_vars

----------------------------------------------------------------------------
(* Vocabulary of the properties: the dependency graph read off the input    *)
(* list and off a dependency map, independently of the resolver's code.     *)

Outcome == resolved[1]

\* The dependency names a record declares, in declared order.
Declared(task) ==
    CASE task.depends_on.kind = "str"  -> <<task.depends_on.name>>
      [] task.depends_on.kind = "list" -> task.depends_on.items
      [] OTHER -> <<>>

DeclaredNames == {tasks_config[i].name : i \in DOMAIN tasks_config}

RecordOf(name) == tasks_config[CHOOSE i \in DOMAIN tasks_config : tasks_config[i].name = name]

\* Graphs are functions from a task name to the set of names it depends on.
DeclaredGraph == [name \in DeclaredNames |-> SeqToSet(Declared(RecordOf(name)))]

MapGraph(d) == [task \in KeySet(d) |-> SeqToSet(d.val[task])]

RECURSIVE Descend(_, _)
Descend(g, S) ==
    LET more == S \cup UNION {g[t] : t \in S \cap DOMAIN g}
    IN IF more = S THEN S ELSE Descend(g, more)

\* Every direct or transitive dependency of t.
AllDeps(g, t) == Descend(g, g[t])

Cyclic(g) == \E t \in DOMAIN g : t \in AllDeps(g, t)

\* The places <<record index, entry index>> of the input that name an undeclared task.
MissingPairs ==
    {p \in UNION {{<<i, j>> : j \in DOMAIN Declared(tasks_config[i])} : i \in DOMAIN tasks_config} :
        Declared(tasks_config[p[1]])[p[2]] \notin DeclaredNames}

FirstMissingPair ==
    CHOOSE p \in MissingPairs :
        \A q \in MissingPairs : p[1] < q[1] \/ (p[1] = q[1] /\ p[2] <= q[2])

IsPermutationOf(s, S) == Len(s) = Cardinality(S) /\ SeqToSet(s) = S

RECURSIVE Flatten(_)
Flatten(ss) == IF ss = <<>> THEN <<>> ELSE Head(ss) \o Flatten(Tail(ss))

SetMax(S) == CHOOSE m \in S : \A x \in S : x <= m

----------------------------------------------------------------------------
(* Claims *)

\* C1: for every task list resolve_dependencies accepts (a dependency list
\* may name the same task more than once), get_execution_order of the
\* returned map contains every task name of the map exactly once.
C1_OrderIsPermutation ==
    execution_order # NotCalled =>
        IsPermutationOf(execution_order[1], KeySet(dependency_map))

\* C2: every task that appears in the sequence returned by
\* get_execution_order is preceded, at a strictly smaller index, by every
\* task listed in its dependencies.
C2_DependenciesPrecede ==
    execution_order # NotCalled =>
        LET order == execution_order[1]
        IN \A n \in DOMAIN order :
             \A d \in SeqToSet(dependency_map.val[order[n]]) :
                \E k \in 1..(n - 1) : order[k] = d

C2_Witness ==
    /\ execution_order # NotCalled
    /\ \E n \in DOMAIN execution_order[1] :
          Cardinality(SeqToSet(dependency_map.val[execution_order[1][n]])) >= 2

\* C3: when every dependency name is a declared task name,
\* resolve_dependencies fails with CircularDependencyError if and only if the
\* declared dependency graph has a directed cycle (a self-dependency, a
\* longer cycle, a cycle not reachable from the first task); without a cycle
\* it returns the map of the declared graph.
C3_CircularIffCycle ==
    (resolved # NotCalled /\ MissingPairs = {}) =>
        /\ Outcome.kind = "CircularDependencyError" <=> Cyclic(DeclaredGraph)
        /\ ~Cyclic(DeclaredGraph) =>
              /\ Outcome.kind = "ok"
              /\ MapGraph(Outcome.dependencies) = DeclaredGraph

\* A cycle among later tasks while the first task has no dependencies.
C3_Witness ==
    /\ resolved # NotCalled
    /\ Outcome.kind = "CircularDependencyError"
    /\ Len(tasks_config) = 3
    /\ Declared(tasks_config[1]) = <<>>
    /\ tasks_config[1].name \notin SeqToSet(Outcome.cycle)
    /\ Len(Outcome.cycle) = 3

\* C4: whenever resolve_dependencies returns a map, validate_acyclic of that
\* map returns True, and the map holds no directed cycle.
C4_ReturnedMapIsAcyclic ==
    /\ acyclic # NotCalled => acyclic[1] = TRUE
    /\ HasMap => ~Cyclic(MapGraph(dependency_map))

C4_Witness ==
    /\ acyclic # NotCalled
    /\ acyclic[1] = TRUE
    /\ \E t \in KeySet(dependency_map) : Cardinality(AllDeps(MapGraph(dependency_map), t)) >= 2

\* C5: resolve_dependencies fails with MissingTaskError if and only if some
\* record lists a dependency that is no record's name; the error names the
\* task and the dependency of the first such pair in input order, and no map
\* is returned.
C5_MissingTaskIffUndeclared ==
    resolved # NotCalled =>
        /\ Outcome.kind = "MissingTaskError" <=> MissingPairs # {}
        /\ Outcome.kind = "MissingTaskError" =>
              /\ Outcome.task = tasks_config[FirstMissingPair[1]].name
              /\ Outcome.dep = Declared(tasks_config[FirstMissingPair[1]])[FirstMissingPair[2]]
              /\ ~HasMap

\* Several undeclared dependencies with different names, in one record.
C5_Witness ==
    /\ resolved # NotCalled
    /\ Outcome.kind = "MissingTaskError"
    /\ \E p \in MissingPairs :
          /\ p[1] = FirstMissingPair[1]
          /\ Declared(tasks_config[p[1]])[p[2]] # Outcome.dep

\* The declared graph restricted to declared names has a cycle.
DeclaredCycle ==
    Cyclic([name \in DeclaredNames |-> DeclaredGraph[name] \cap DeclaredNames])

\* C6: a task list holding both a dependency on an undeclared task and a
\* dependency cycle makes resolve_dependencies report MissingTaskError, never
\* CircularDependencyError, wherever the two defects are in the list.
C6_MissingBeforeCircular ==
    (resolved # NotCalled /\ MissingPairs # {} /\ DeclaredCycle) =>
        Outcome.kind = "MissingTaskError"

\* The cycle is among the first records, the undeclared dependency in the last.
C6_Witness ==
    /\ resolved # NotCalled
    /\ Outcome.kind = "MissingTaskError"
    /\ DeclaredCycle
    /\ FirstMissingPair[1] = Len(tasks_config)
    /\ tasks_config[1].name \in AllDeps(DeclaredGraph, tasks_config[1].name)

\* C7: level monotonicity: get_task_levels gives every dependency of a task
\* a level strictly below the task's level.
C7_LevelMonotonicity ==
    task_levels # NotCalled =>
        \A t \in KeySet(dependency_map) :
            \A d \in SeqToSet(dependency_map.val[t]) :
                task_levels[1].val[d] < task_levels[1].val[t]

\* A task whose dependencies lie on different levels.
C7_Witness ==
    /\ task_levels # NotCalled
    /\ \E t \in KeySet(dependency_map) :
          \E d, e \in SeqToSet(dependency_map.val[t]) :
              task_levels[1].val[d] < task_levels[1].val[e]

\* C8: get_task_levels returns a mapping over exactly the keys of the map,
\* with level 0 for a task without dependencies and 1 + the largest level of
\* its dependencies otherwise, whatever the order of keys and of names in a
\* dependency list.
C8_LevelRecurrence ==
    task_levels # NotCalled =>
        /\ KeySet(task_levels[1]) = KeySet(dependency_map)
        /\ Len(task_levels[1].keys) = Cardinality(KeySet(dependency_map))
        /\ \A t \in KeySet(dependency_map) :
              task_levels[1].val[t] =
                  IF dependency_map.val[t] = <<>> THEN 0
                  ELSE 1 + SetMax({task_levels[1].val[d] : d \in SeqToSet(dependency_map.val[t])})

\* A task that lists its highest dependency first and a lower one last, and
\* that comes before both of them in the map's key order.
C8_Witness ==
    /\ task_levels # NotCalled
    /\ \E t \in KeySet(dependency_map) :
          LET deps == dependency_map.val[t]
          IN /\ Len(deps) = 2
             /\ task_levels[1].val[deps[2]] < task_levels[1].val[deps[1]]
             /\ dependency_map.keys[1] = t

\* C9: parallel-group partition: the groups returned by get_parallel_groups,
\* concatenated in order, contain every task name of the map exactly once.
C9_GroupsPartition ==
    parallel_groups # NotCalled =>
        IsPermutationOf(Flatten(parallel_groups[1]), KeySet(dependency_map))

C9_Witness ==
    /\ parallel_groups # NotCalled
    /\ Len(parallel_groups[1]) = 2
    /\ \E n \in DOMAIN parallel_groups[1] : Len(parallel_groups[1][n]) = 2

\* C10: no task of a group is a direct or transitive dependency of another
\* task of the same group; every dependency of a task in group i lies in a
\* group with index strictly below i.
C10_GroupsRespectDependencies ==
    parallel_groups # NotCalled =>
        LET groups == parallel_groups[1]
            g == MapGraph(dependency_map)
        IN \A n \in DOMAIN groups :
             \A t \in SeqToSet(groups[n]) :
                /\ \A d \in AllDeps(g, t) : d \notin SeqToSet(groups[n])
                /\ \A d \in g[t] : \E k \in 1..(n - 1) : d \in SeqToSet(groups[k])

\* A chain of three groups: the last group's task depends transitively on the first's.
C10_Witness ==
    /\ parallel_groups # NotCalled
    /\ Len(parallel_groups[1]) = 3
    /\ \E t \in SeqToSet(parallel_groups[1][3]) :
          \E d \in SeqToSet(parallel_groups[1][1]) :
              /\ d \in AllDeps(MapGraph(dependency_map), t)
              /\ d \notin MapGraph(dependency_map)[t]


\* The map resolve_dependencies builds before it checks it for cycles.
BuiltMap == build_dependencies(tasks_config, task_names(tasks_config), 1, EmptyDict).dependencies

\* C11: the levels present are exactly 0..max without a gap, so the i-th
\* group (counting from 0) is exactly the set of tasks of level i, no group
\* is empty, and there are max level + 1 groups (none for the empty map).
C11_GroupsAreLevels ==
    (parallel_groups # NotCalled /\ task_levels # NotCalled) =>
        LET groups == parallel_groups[1]
            levels == task_levels[1]
        IN /\ {levels.val[t] : t \in KeySet(dependency_map)} = 0..(Len(groups) - 1)
           /\ \A n \in DOMAIN groups :
                 /\ groups[n] # <<>>
                 /\ SeqToSet(groups[n]) = {t \in KeySet(dependency_map) : levels.val[t] = n - 1}

C11_Witness ==
    /\ parallel_groups # NotCalled
    /\ task_levels # NotCalled
    /\ Len(parallel_groups[1]) = 2
    /\ Len(parallel_groups[1][2]) = 2

\* C12: the chain carried by CircularDependencyError is the suffix of the DFS
\* path that starts at the earlier occurrence of the re-entered task, followed
\* by that task again: its first and last elements are equal, its other
\* elements are pairwise distinct, each element lists the next one as a
\* direct dependency, and every task in it lies on a cycle of the map.
C12_CycleChain ==
    (resolved # NotCalled /\ Outcome.kind = "CircularDependencyError") =>
        LET cycle == Outcome.cycle
            path  == check_circular_dependencies(BuiltMap).path
            last  == Len(cycle)
        IN /\ last >= 2
           /\ cycle[1] = cycle[last]
           /\ \A i, j \in 1..(last - 1) : i # j => cycle[i] # cycle[j]
           /\ \A i \in 1..(last - 1) : cycle[i + 1] \in DeclaredGraph[cycle[i]]
           /\ \A i \in 1..last : cycle[i] \in AllDeps(DeclaredGraph, cycle[i])
           /\ \E k \in DOMAIN path :
                 /\ \A j \in 1..(k - 1) : path[j] # path[k]
                 /\ cycle = SubSeq(path, k, Len(path)) \o <<path[k]>>

\* Path [a, b, c] re-entering b: the chain is [b, c, b].
C12_Witness ==
    /\ resolved # NotCalled
    /\ Outcome.kind = "CircularDependencyError"
    /\ Len(Outcome.cycle) = 3
    /\ Len(check_circular_dependencies(BuiltMap).path) = 3
    /\ check_circular_dependencies(BuiltMap).path[1] \notin SeqToSet(Outcome.cycle)

\* C14: the returned map has exactly the input's task names as keys and maps
\* each task to its declared dependencies in declared order: an absent or
\* None depends_on and an empty list give the empty list, a string s gives
\* [s], a list is kept as given.
C14_MapIsDeclaredDependencies ==
    HasMap =>
        /\ KeySet(dependency_map) = DeclaredNames
        /\ Len(dependency_map.keys) = Cardinality(DeclaredNames)
        /\ \A i \in DOMAIN tasks_config :
              LET d   == tasks_config[i].depends_on
                  got == dependency_map.val[tasks_config[i].name]
              IN /\ d.kind \in {"absent", "none"} => got = <<>>
                 /\ d.kind = "str" => got = <<d.name>>
                 /\ d.kind = "list" => got = d.items

\* One record without the key, one with None, one with a string.
C14_Witness ==
    /\ HasMap
    /\ {tasks_config[i].depends_on.kind : i \in DOMAIN tasks_config} = {"absent", "none", "str"}

\* C15: referential closure: every name in a dependency list of a returned
\* map is a key of the map.
C15_ReferentialClosure ==
    HasMap =>
        \A t \in KeySet(dependency_map) :
            \A d \in SeqToSet(dependency_map.val[t]) : d \in KeySet(dependency_map)

\* A returned map of fewer tasks than there are names, with dependencies.
C15_Witness ==
    /\ HasMap
    /\ Len(tasks_config) = 2
    /\ \E t \in KeySet(dependency_map) : Len(dependency_map.val[t]) = 2


\* C13: on every dependency map whose dependency names are all keys,
\* validate_acyclic returns True exactly when the map has no directed cycle
\* and False exactly when it has one, and no error reaches the caller; maps
\* that resolve_dependencies would have rejected are included.
C13_ValidateAcyclicDecides ==
    given_acyclic # NotCalled =>
        /\ given_acyclic[1] \in BOOLEAN
        /\ given_acyclic[1] <=> ~Cyclic(MapGraph(given_map))

\* A cyclic map whose first key is on no cycle and reaches none.
C13_Witness ==
    /\ given_acyclic = <<FALSE>>
    /\ Len(given_map.keys) = 3
    /\ given_map.val[given_map.keys[1]] = <<>>

\* The resolution of the input list succeeds: no undeclared dependency, no cycle.
Resolvable == MissingPairs = {} /\ ~Cyclic(DeclaredGraph)

\* The <<task, dependency>> links the set_upstream calls made attach.
LinksOf(made) ==
    UNION {{<<made[n].task, d>> : d \in SeqToSet(made[n].upstream_tasks)} : n \in DOMAIN made}

\* C19: _setup_dependencies attaches upstream links only after
\* resolve_dependencies succeeded on the whole list: no set_upstream call when
\* resolution fails; on success the links are exactly the (task, dependency)
\* pairs of the map, and a task without dependencies gets no call.
C19_LinksOnlyAfterResolution ==
    setup # NotCalled =>
        /\ ~Resolvable => (setup[1].calls = <<>> /\ setup[1].raised # "")
        /\ Resolvable =>
              /\ setup[1].raised = ""
              /\ LinksOf(setup[1].calls) =
                    {p \in DeclaredNames \X DeclaredNames : p[2] \in DeclaredGraph[p[1]]}
              /\ \A n \in DOMAIN setup[1].calls :
                    /\ setup[1].calls[n].upstream_tasks # <<>>
                    /\ \A k \in DOMAIN setup[1].calls :
                          setup[1].calls[k].task = setup[1].calls[n].task => k = n

\* Two tasks get links, one gets none.
C19_Witness ==
    /\ setup # NotCalled
    /\ setup[1].raised = ""
    /\ Len(setup[1].calls) = 2
    /\ Len(tasks_config) = 3

\* C20: validate_dag_spec returns True exactly when resolve_dependencies
\* succeeds on the spec's task list, and returns False, without raising, when
\* it fails with MissingTaskError or CircularDependencyError.
C20_ValidateDagSpec ==
    spec_valid # NotCalled =>
        /\ spec_valid[1].raised = ""
        /\ spec_valid[1].value <=> Resolvable

\* False for a list whose only defect is a cycle.
C20_Witness ==
    /\ spec_valid # NotCalled
    /\ spec_valid[1].value = FALSE
    /\ MissingPairs = {}
    /\ Cyclic(DeclaredGraph)


----------------------------------------------------------------------------
(* Resolver calls in progress: each method as the steps of its own frame *)

\* The operations a call can be of.
Operations == {"_check_circular_dependencies", "get_execution_order", "get_task_levels"}

\* The frame of a call that has not run yet: the argument and the locals of
\* the three methods (colors, path; in_degree, queue, result; levels), the
\* position in the loop over the keys (root) and the stack of the nested
\* function's activations (frames).
NewCall(op, dependencies) ==
    [op           |-> op,
     dependencies |-> dependencies,
     pc           |-> "start",
     root         |-> 1,
     frames       |-> <<>>,
     colors       |-> <<>>,
     path         |-> <<>>,
     raised       |-> FALSE,
     cycle        |-> <<>>,
     in_degree    |-> <<>>,
     queue        |-> <<>>,
     result       |-> <<>>,
     levels       |-> EmptyDict]

\* The call dfs(task) made from frame c: raise on GRAY, return on BLACK, else
\* enter the task; its loop over the dependencies runs in later steps.
call_dfs(c, task) ==
    IF c.colors[task] = GRAY
    THEN LET cycle_start == ListIndex(c.path, task)
         IN [c EXCEPT !.raised = TRUE,
                      !.cycle = SubSeq(c.path, cycle_start, Len(c.path)) \o <<task>>,
                      !.pc = "done"]
    ELSE IF c.colors[task] = BLACK
    THEN c
    ELSE [c EXCEPT !.colors[task] = GRAY,
                   !.path = Append(@, task),
                   !.frames = Append(@, [task |-> task, i |-> 1])]

\* Faulty variant of check_step: a finished dfs leaves its task on the path.
check_step_without_pop(c) ==
    IF c.pc = "start"
    THEN [c EXCEPT !.pc = "run",
                   !.colors = [task \in KeySet(c.dependencies) |-> WHITE]]
    ELSE IF c.frames = <<>>
    THEN IF c.root > Len(c.dependencies.keys)
         THEN [c EXCEPT !.pc = "done"]
         ELSE LET task == c.dependencies.keys[c.root]
                  next == [c EXCEPT !.root = @ + 1]
              IN IF c.colors[task] = WHITE THEN call_dfs(next, task) ELSE next
    ELSE LET top == c.frames[Len(c.frames)]
             deps == c.dependencies.val[top.task]
         IN IF top.i <= Len(deps)
            THEN call_dfs([c EXCEPT !.frames[Len(c.frames)].i = @ + 1], deps[top.i])
            ELSE [c EXCEPT !.colors[top.task] = BLACK,
                           !.frames = SubSeq(@, 1, Len(@) - 1)]

\* Faulty variant of check_step: the loop over the keys stays on a key that
\* is not WHITE.
check_step_staying_on_visited_key(c) ==
    IF c.pc = "start"
    THEN [c EXCEPT !.pc = "run",
                   !.colors = [task \in KeySet(c.dependencies) |-> WHITE]]
    ELSE IF c.frames = <<>>
    THEN IF c.root > Len(c.dependencies.keys)
         THEN [c EXCEPT !.pc = "done"]
         ELSE LET task == c.dependencies.keys[c.root]
              IN IF c.colors[task] = WHITE THEN call_dfs([c EXCEPT !.root = @ + 1], task) ELSE c
    ELSE LET top == c.frames[Len(c.frames)]
             deps == c.dependencies.val[top.task]
         IN IF top.i <= Len(deps)
            THEN call_dfs([c EXCEPT !.frames[Len(c.frames)].i = @ + 1], deps[top.i])
            ELSE [c EXCEPT !.path = SubSeq(@, 1, Len(@) - 1),
                           !.colors[top.task] = BLACK,
                           !.frames = SubSeq(@, 1, Len(@) - 1)]

\* One step of _check_circular_dependencies: the initialisation of colors, one
\* iteration of the loop over the keys, one iteration of the innermost dfs's
\* loop, or the end of the innermost dfs.
check_step(c) ==
    IF c.pc = "start"
    THEN [c EXCEPT !.pc = "run",
                   !.colors = [task \in KeySet(c.dependencies) |-> WHITE]]
    ELSE IF c.frames = <<>>
    THEN IF c.root > Len(c.dependencies.keys)
         THEN [c EXCEPT !.pc = "done"]
         ELSE LET task == c.dependencies.keys[c.root]
                  next == [c EXCEPT !.root = @ + 1]
              IN IF c.colors[task] = WHITE THEN call_dfs(next, task) ELSE next
    ELSE LET top == c.frames[Len(c.frames)]
             deps == c.dependencies.val[top.task]
         IN IF top.i <= Len(deps)
            THEN call_dfs([c EXCEPT !.frames[Len(c.frames)].i = @ + 1], deps[top.i])
            ELSE [c EXCEPT !.path = SubSeq(@, 1, Len(@) - 1),
                           !.colors[top.task] = BLACK,
                           !.frames = SubSeq(@, 1, Len(@) - 1)]

\* One step of get_execution_order: the code before the while loop, one
\* iteration of the loop, or the return.
order_step(c) ==
    IF c.pc = "start"
    THEN LET in_degree == initial_in_degree(c.dependencies)
         IN [c EXCEPT !.pc = "run",
                      !.in_degree = in_degree,
                      !.queue = initial_queue(c.dependencies, in_degree)]
    ELSE IF c.queue = <<>>
    THEN [c EXCEPT !.pc = "done"]
    ELSE LET st == kahn_step(c.dependencies,
                             [in_degree |-> c.in_degree, queue |-> c.queue, result |-> c.result])
         IN [c EXCEPT !.in_degree = st.in_degree, !.queue = st.queue, !.result = st.result]

\* A get_level call returns value to the activation that made it: the
\* generator of that activation takes it; the loop over the keys drops it.
return_level(c, value) ==
    IF c.frames = <<>> THEN c
    ELSE [c EXCEPT !.frames[Len(c.frames)].values = Append(@, value)]

\* Faulty variant of call_get_level: the memo entry of a task is written
\* when the task is entered, before the calls on its dependencies.
call_get_level_marking_first(c, task) ==
    IF task \in KeySet(c.levels)
    THEN return_level(c, c.levels.val[task])
    ELSE IF DictGet(c.dependencies, task, <<>>) = <<>>
    THEN return_level([c EXCEPT !.levels = DictSet(@, task, 0)], 0)
    ELSE [c EXCEPT !.levels = DictSet(@, task, 0),
                   !.frames = Append(@, [task |-> task, i |-> 1, values |-> <<>>])]

\* The call get_level(task) made from frame c, up to its generator.
call_get_level(c, task) ==
    IF task \in KeySet(c.levels)
    THEN return_level(c, c.levels.val[task])
    ELSE IF DictGet(c.dependencies, task, <<>>) = <<>>
    THEN return_level([c EXCEPT !.levels = DictSet(@, task, 0)], 0)
    ELSE [c EXCEPT !.frames = Append(@, [task |-> task, i |-> 1, values |-> <<>>])]

\* One step of get_task_levels: one iteration of the loop over the keys, one
\* item of the innermost get_level's generator, or the end of the innermost
\* get_level.
levels_step(c) ==
    IF c.pc = "start"
    THEN [c EXCEPT !.pc = "run"]
    ELSE IF c.frames = <<>>
    THEN IF c.root > Len(c.dependencies.keys)
         THEN [c EXCEPT !.pc = "done"]
         ELSE call_get_level([c EXCEPT !.root = @ + 1], c.dependencies.keys[c.root])
    ELSE LET top == c.frames[Len(c.frames)]
             deps == DictGet(c.dependencies, top.task, <<>>)
         IN IF top.i <= Len(deps)
            THEN call_get_level([c EXCEPT !.frames[Len(c.frames)].i = @ + 1], deps[top.i])
            ELSE LET level == ListMax(top.values) + 1
                 IN return_level([c EXCEPT !.levels = DictSet(@, top.task, level),
                                           !.frames = SubSeq(@, 1, Len(@) - 1)],
                                 level)

\* The frame of a resolve_dependencies call that has not run yet: the locals
\* of the method (the argument, the position i of the loop over the records,
\* the map under construction, the error raised) next to those of the cycle
\* check it ends with.
NewResolveCall(config) ==
    [config |-> config, i |-> 1, error |-> Returned(EmptyDict)]
        @@ [NewCall("resolve_dependencies", EmptyDict) EXCEPT !.pc = "build"]

\* One step of resolve_dependencies: one iteration of the loop over the
\* records, the call of the cycle check after the last, a step of that check,
\* or, with the end of the check, the return or the CircularDependencyError.
resolve_step(c) ==
    IF c.pc = "build"
    THEN IF c.i > Len(c.config)
         THEN [c EXCEPT !.pc = "start"]
         ELSE LET task_name  == c.config[c.i].name
                  depends_on == normalize_depends_on(c.config[c.i].depends_on)
                  j          == first_missing(depends_on, task_names(c.config), 1)
              IN IF j # 0
                 THEN [c EXCEPT !.pc = "done",
                                !.raised = TRUE,
                                !.error = MissingTaskError(task_name, depends_on[j])]
                 ELSE [c EXCEPT !.i = @ + 1,
                                !.dependencies = DictSet(@, task_name, depends_on)]
    ELSE LET checked == check_step(c)
         IN IF checked.raised
            THEN [checked EXCEPT !.error = CircularDependencyError(checked.cycle)]
            ELSE checked

\* One step of get_parallel_groups: a step of the get_task_levels call it
\* starts with, then the loop over the levels with the sorted return.
groups_step(c) ==
    IF c.pc = "group"
    THEN [c EXCEPT !.pc = "done",
                   !.result = groups_in_level_order(group_by_level(c.levels, 1, EmptyDict))]
    ELSE LET stepped == levels_step(c)
         IN IF stepped.pc = "done" THEN [stepped EXCEPT !.pc = "group"] ELSE stepped

call_step(c) ==
    CASE c.op = "_check_circular_dependencies" -> check_step(c)
      [] c.op = "get_execution_order"          -> order_step(c)
      [] c.op = "get_task_levels"              -> levels_step(c)
      [] c.op = "resolve_dependencies"         -> resolve_step(c)
      [] c.op = "get_parallel_groups"          -> groups_step(c)

\* Faulty variant of step_of_call: the level memo is one dict kept on the
\* resolver, so that a step of one get_task_levels call shows in the other.
step_with_memo_on_resolver(running, p) ==
    LET stepped == call_step(running[p])
    IN [q \in DOMAIN running |->
          IF q = p THEN stepped
          ELSE IF stepped.op = "get_task_levels" /\ running[q].op = "get_task_levels"
          THEN [running[q] EXCEPT !.levels = stepped.levels]
          ELSE running[q]]

\* A step of call p: the locals it reads and writes are those of its own frame.
step_of_call(running, p) == [running EXCEPT ![p] = call_step(running[p])]

\* Two calls on maps of their own, on one resolver or on two. The two maps
\* share the bounds; get_task_levels is called on maps without a cycle.
InitConcurrent ==
    /\ tasks_config = <<>>
    /\ NothingResolved
    /\ NoGivenMap
    /\ NoGenerator
    /\ \E n1 \in 0..MaxTasks, e1 \in 0..MaxEdges :
         \E n2 \in 0..(MaxTasks - n1), e2 \in 0..(MaxEdges - e1) :
           \E owners1 \in [1..e1 -> 1..n1], owners2 \in [1..e2 -> 1..n2] :
             /\ \A j \in 1..(e1 - 1) : owners1[j] <= owners1[j + 1]
             /\ \A j \in 1..(e2 - 1) : owners2[j] <= owners2[j + 1]
             /\ \E deps1 \in [1..e1 -> {AllNames[i] : i \in 1..n1}],
                   deps2 \in [1..e2 -> {AllNames[i] : i \in 1..n2}] :
                  LET m1 == GivenMap(n1, owners1, deps1)
                      m2 == GivenMap(n2, owners2, deps2)
                  IN \E op1 \in Operations, op2 \in Operations :
                       /\ op1 = "get_task_levels" => ~Cyclic(MapGraph(m1))
                       /\ op2 = "get_task_levels" => ~Cyclic(MapGraph(m2))
                       /\ calls = <<NewCall(op1, m1), NewCall(op2, m2)>>

\* The scheduler lets call p take a step.
CallStep(p) ==
    /\ calls[p].pc # "done"
    /\ calls' = step_of_call(calls, p)
    /\ UNCHANGED <<callerVars, givenVars, generatorVars>>

NextConcurrent == \E p \in DOMAIN calls : CallStep(p)

SpecConcurrent == InitConcurrent /\ [][NextConcurrent]_vars

\* What call c returns or raises when nothing else runs.
AsWhenRunAlone(c) ==
    CASE c.op = "_check_circular_dependencies" ->
            [colors |-> c.colors, path |-> c.path, raised |-> c.raised, cycle |-> c.cycle]
                = check_circular_dependencies(c.dependencies)
      [] c.op = "get_execution_order" ->
            c.result = get_execution_order(c.dependencies)
      [] c.op = "get_task_levels" ->
            c.levels = get_task_levels(c.dependencies)

\* C18: two resolver calls whose steps are interleaved arbitrarily each give
\* the result they give when run alone, and a step of one call leaves the
\* frame of the other (colour map, DFS path, in-degree table, queue, level
\* memo) as it was.
C18_InterleavedCallsIndependent ==
    [][/\ \A p \in DOMAIN calls, q \in DOMAIN calls :
             (p # q /\ calls'[p] # calls[p]) => calls'[q] = calls[q]
       /\ \A p \in DOMAIN calls :
             calls'[p].pc = "done" => AsWhenRunAlone(calls'[p])
      ]_vars

\* A get_task_levels call has finished with a task at level 1 while a cycle
\* check on another map is inside its DFS.
C18_Witness ==
    /\ calls # <<>>
    /\ calls[1].op = "get_task_levels"
    /\ calls[1].pc = "done"
    /\ \E t \in KeySet(calls[1].levels) : calls[1].levels.val[t] = 1
    /\ calls[2].op = "_check_circular_dependencies"
    /\ calls[2].pc = "run"
    /\ calls[2].path # <<>>


----------------------------------------------------------------------------
(* Task lists whose records share names (the loader's uniqueness check bypassed) *)

\* The i-th record carries names[i]; several records may carry one name. A
\* name is new to the list only after the names before it in AllNames are in
\* use, which covers every list up to a renaming of its tasks.
TaskListNamed(n, names, owners, deps, forms) ==
    [i \in 1..n |-> [name       |-> names[i],
                     depends_on |-> DependsOnValue(forms[i], EntriesOf(owners, deps, i))]]

IsInputWithDuplicates(config) ==
    \E n \in 0..MaxTasks, e \in 0..MaxEdges :
      \E names \in [1..n -> {AllNames[k] : k \in 1..n}], owners \in [1..e -> 1..n] :
        /\ \A i \in 1..n : \E k \in 1..i :
              /\ names[i] = AllNames[k]
              /\ \A h \in 1..(k - 1) : \E g \in 1..(i - 1) : names[g] = AllNames[h]
        /\ \A j \in 1..(e - 1) : owners[j] <= owners[j + 1]
        /\ \E forms \in [1..n -> Forms] :
             /\ \A i \in 1..n : FormFits(forms[i], Cardinality({j \in 1..e : owners[j] = i}))
             /\ e + Cardinality({i \in 1..n : forms[i] \in {"none", "absent"}}) <= MaxEdges
             /\ \E deps \in [1..e -> DepNames] :
                  config = TaskListNamed(n, names, owners, deps, forms)

InitDuplicates ==
    /\ IsInputWithDuplicates(tasks_config)
    /\ NothingResolved
    /\ NoGivenMap
    /\ NoGenerator
    /\ NoCalls

NextDuplicates == ResolveDependencies

SpecDuplicates == InitDuplicates /\ [][NextDuplicates]_vars

\* The index of the last record of the input that carries the name.
LastRecordNamed(name) ==
    CHOOSE i \in DOMAIN tasks_config :
        /\ tasks_config[i].name = name
        /\ \A k \in DOMAIN tasks_config : tasks_config[k].name = name => k <= i

\* C21: when resolve_dependencies is given records that share a name and
\* returns a map, the map has one key for that name, and the key's list is
\* the dependency list of the last record with that name in input order,
\* never the concatenation or union of the lists of the records.
C21_LastDuplicateWins ==
    HasMap =>
        /\ KeySet(dependency_map) = task_names(tasks_config)
        /\ Len(dependency_map.keys) = Cardinality(task_names(tasks_config))
        /\ \A name \in task_names(tasks_config) :
              dependency_map.val[name] =
                  normalize_depends_on(tasks_config[LastRecordNamed(name)].depends_on)

\* Two records of one name, the first with a dependency, the last with none.
C21_Witness ==
    /\ HasMap
    /\ \E i \in DOMAIN tasks_config, k \in DOMAIN tasks_config :
          /\ i < k
          /\ tasks_config[i].name = tasks_config[k].name
          /\ k = LastRecordNamed(tasks_config[k].name)
          /\ normalize_depends_on(tasks_config[i].depends_on) # <<>>
          /\ dependency_map.val[tasks_config[k].name] = <<>>


----------------------------------------------------------------------------
(* One resolver method called directly on a map of the caller's own *)

\* Any referentially closed map within the bounds, cycles and repeated names
\* in a list included, and any of the methods.
InitDirect ==
    /\ tasks_config = <<>>
    /\ NothingResolved
    /\ NoGivenMap
    /\ NoGenerator
    /\ \E n \in 0..MaxTasks, e \in 0..MaxEdges :
         \E owners \in [1..e -> 1..n] :
           /\ \A j \in 1..(e - 1) : owners[j] <= owners[j + 1]
           /\ \E deps \in [1..e -> {AllNames[i] : i \in 1..n}], op \in Operations :
                calls = <<NewCall(op, GivenMap(n, owners, deps))>>

\* The next step of the call, while its nesting is within the depth followed.
DirectStep ==
    /\ calls[1].pc # "done"
    /\ Len(calls[1].frames) < MaxDepth
    /\ calls' = step_of_call(calls, 1)
    /\ UNCHANGED <<callerVars, givenVars, generatorVars>>

NextDirect == DirectStep

SpecDirect == InitDirect /\ [][NextDirect]_vars

\* A call that can take a step takes it.
SpecDirectFair == SpecDirect /\ WF_vars(DirectStep)

\* The call of SpecDirect, its map as a graph, and the method it is of.
TheCall == calls[1]

CallGraph == MapGraph(TheCall.dependencies)

IsCallOf(op) == calls # <<>> /\ TheCall.op = op

NoRepeats(s) == Cardinality(SeqToSet(s)) = Len(s)

\* The tasks that are on no cycle and depend on no task on a cycle.
ClearOfCycles(g) ==
    {t \in DOMAIN g : t \notin AllDeps(g, t) /\ \A d \in AllDeps(g, t) : d \notin AllDeps(g, d)}

\* C26 (result): on a closed map without repeated names in a list, cyclic or
\* not, the sequence get_execution_order returns holds exactly the tasks that
\* are on no cycle and depend on none, each once and after its dependencies;
\* it is shorter than the number of tasks exactly when the map has a cycle.
C26_OrderSkipsCycles ==
    (/\ IsCallOf("get_execution_order")
     /\ TheCall.pc = "done"
     /\ \A t \in KeySet(TheCall.dependencies) : NoRepeats(TheCall.dependencies.val[t])) =>
        LET order == TheCall.result
        IN /\ SeqToSet(order) = ClearOfCycles(CallGraph)
           /\ NoRepeats(order)
           /\ \A n \in DOMAIN order : \A d \in CallGraph[order[n]] :
                 \E k \in 1..(n - 1) : order[k] = d
           /\ Len(order) < Len(TheCall.dependencies.keys) <=> Cyclic(CallGraph)

\* C26: get_execution_order called directly on a referentially closed map
\* that contains a cycle terminates without raising, with the result above.
C26_OrderOnCyclicMap ==
    /\ []C26_OrderSkipsCycles
    /\ IsCallOf("get_execution_order") ~> TheCall.pc = "done"

\* A cycle of two tasks, and a third task that is returned.
C26_Witness ==
    /\ IsCallOf("get_execution_order")
    /\ TheCall.pc = "done"
    /\ \A t \in KeySet(TheCall.dependencies) : NoRepeats(TheCall.dependencies.val[t])
    /\ Len(TheCall.dependencies.keys) = 3
    /\ Cyclic(CallGraph)
    /\ Len(TheCall.result) = 1

\* C27: get_task_levels called directly on a map with a cycle never returns:
\* the memo gets an entry for a task only after the calls on its dependencies
\* returned, so no task on a cycle or depending on one ever gets an entry,
\* and the recursion re-enters the tasks of the cycle ever deeper.
C27_LevelsNeverReturnOnCycle ==
    IsCallOf("get_task_levels") =>
        /\ Cyclic(CallGraph) => TheCall.pc # "done"
        /\ KeySet(TheCall.levels) \subseteq ClearOfCycles(CallGraph)
        /\ \A t \in KeySet(TheCall.levels) : CallGraph[t] \subseteq KeySet(TheCall.levels)
        /\ \A i \in DOMAIN TheCall.frames : TheCall.frames[i].task \notin KeySet(TheCall.levels)

\* The recursion is MaxDepth activations deep, more than the map has tasks,
\* after a task clear of the cycle got its level.
C27_Witness ==
    /\ IsCallOf("get_task_levels")
    /\ Len(TheCall.frames) = MaxDepth
    /\ Len(TheCall.dependencies.keys) < MaxDepth
    /\ TheCall.levels.keys # <<>>

\* C28: on any referentially closed map (cyclic or not, with or without
\* repeated names in a list) no task enters the queue of get_execution_order
\* more than once, in_degree never becomes negative, and the returned
\* sequence holds no name twice and no name that is not a key.
C28_OrderHasNoRepeats ==
    (IsCallOf("get_execution_order") /\ TheCall.pc # "start") =>
        /\ NoRepeats(TheCall.result \o TheCall.queue)
        /\ SeqToSet(TheCall.result \o TheCall.queue) \subseteq KeySet(TheCall.dependencies)
        /\ \A t \in KeySet(TheCall.dependencies) : TheCall.in_degree[t] >= 0

\* A map with a cycle and with a repeated name, two tasks returned.
C28_Witness ==
    /\ IsCallOf("get_execution_order")
    /\ TheCall.pc = "done"
    /\ Cyclic(CallGraph)
    /\ \E t \in KeySet(TheCall.dependencies) : ~NoRepeats(TheCall.dependencies.val[t])
    /\ Len(TheCall.result) >= 1

\* The DFS state of a cycle check: the path is the stack of the dfs
\* activations, holds the GRAY tasks, each once, and follows direct
\* dependencies; a BLACK task has only BLACK dependencies.
DfsStateInvariant(c) ==
    /\ c.path = [i \in DOMAIN c.frames |-> c.frames[i].task]
    /\ SeqToSet(c.path) = {t \in KeySet(c.dependencies) : c.colors[t] = GRAY}
    /\ NoRepeats(c.path)
    /\ \A i \in 1..(Len(c.path) - 1) : c.path[i + 1] \in SeqToSet(c.dependencies.val[c.path[i]])
    /\ \A t \in KeySet(c.dependencies) :
          c.colors[t] = BLACK =>
             \A d \in SeqToSet(c.dependencies.val[t]) : c.colors[d] = BLACK

\* C30: in every state of the cycle-detection DFS on a referentially closed
\* map the path holds exactly the GRAY tasks, each once, in the order they
\* were entered, each listing the next as a direct dependency; a BLACK task
\* has all its dependencies BLACK; no task goes from BLACK or GRAY back to
\* WHITE (nor from BLACK to GRAY).
C30_DfsInvariant ==
    [][IsCallOf("_check_circular_dependencies") =>
          /\ DfsStateInvariant(calls'[1])
          /\ calls[1].pc # "start" =>
                \A t \in KeySet(calls[1].dependencies) : calls'[1].colors[t] >= calls[1].colors[t]
      ]_vars

\* A path of two tasks while a third task is already finished.
C30_Witness ==
    /\ IsCallOf("_check_circular_dependencies")
    /\ Len(TheCall.path) = 2
    /\ \E t \in KeySet(TheCall.dependencies) : TheCall.colors[t] = BLACK


----------------------------------------------------------------------------
(* A caller's sequence of resolver calls, each followed step by step *)

\* The methods called on the map resolve_dependencies returned.
DerivedOperations == {"get_execution_order", "get_task_levels", "get_parallel_groups"}

\* resolve_dependencies is about to run on an input list.
InitStepwise ==
    /\ IsInput(tasks_config)
    /\ NothingResolved
    /\ NoGivenMap
    /\ NoGenerator
    /\ calls = <<NewResolveCall(tasks_config)>>

\* The next step of the call in progress.
StepwiseStep ==
    /\ calls[1].pc # "done"
    /\ calls' = step_of_call(calls, 1)
    /\ UNCHANGED <<callerVars, givenVars, generatorVars>>

\* The caller passes the map resolve_dependencies returned to another method.
CallOnReturnedMap(op) ==
    /\ calls[1].op = "resolve_dependencies"
    /\ calls[1].pc = "done"
    /\ ~calls[1].raised
    /\ calls' = <<NewCall(op, calls[1].dependencies)>>
    /\ UNCHANGED <<callerVars, givenVars, generatorVars>>

NextStepwise ==
    \/ StepwiseStep
    \/ \E op \in DerivedOperations : CallOnReturnedMap(op)

SpecStepwise == InitStepwise /\ [][NextStepwise]_vars

\* A call that can take a step takes it.
SpecStepwiseFair == SpecStepwise /\ WF_vars(StepwiseStep)

\* The entries of a task's dependency list whose task is not yet in result.
PendingEntries(c, t) ==
    Cardinality({j \in DOMAIN c.dependencies.val[t] : c.dependencies.val[t][j] \notin SeqToSet(c.result)})

\* C22: at the start of every iteration of the while loop of
\* get_execution_order on a map returned by resolve_dependencies, in_degree[t]
\* is the number of entries of dependencies[t] whose task is not yet in
\* result, and t is in the queue or in result exactly when that number is 0.
C22_KahnLoopInvariant ==
    (IsCallOf("get_execution_order") /\ TheCall.pc = "run") =>
        \A t \in KeySet(TheCall.dependencies) :
            /\ TheCall.in_degree[t] = PendingEntries(TheCall, t)
            /\ t \in SeqToSet(TheCall.queue \o TheCall.result) <=> PendingEntries(TheCall, t) = 0

\* A step colours a task only WHITE -> GRAY or GRAY -> BLACK.
ColoursAdvance ==
    calls[1].pc \in {"start", "run"} /\ calls[1].colors # <<>> =>
        \A t \in KeySet(calls[1].dependencies) :
            \/ calls'[1].colors[t] = calls[1].colors[t]
            \/ calls'[1].colors[t] = calls[1].colors[t] + 1

\* A level once in the memo stays as it is, and a task that has a level is
\* never entered again.
LevelsComputedOnce ==
    /\ \A t \in KeySet(calls[1].levels) :
          calls'[1].op = calls[1].op =>
              t \in KeySet(calls'[1].levels) /\ calls'[1].levels.val[t] = calls[1].levels.val[t]
    /\ calls'[1].op \in {"get_task_levels", "get_parallel_groups"} =>
          /\ NoRepeats([i \in DOMAIN calls'[1].frames |-> calls'[1].frames[i].task])
          /\ \A i \in DOMAIN calls'[1].frames :
                calls'[1].frames[i].task \notin KeySet(calls'[1].levels)

\* C24: every resolver operation terminates on the inputs it is specified
\* for: resolve_dependencies with its cycle check on every task list (a task
\* is coloured in-progress at most once and finished at most once), and
\* get_execution_order, get_task_levels and get_parallel_groups on every map
\* resolve_dependencies returned, each task's level being computed once.
C24_OperationsTerminate ==
    /\ [][ColoursAdvance /\ LevelsComputedOnce]_vars
    /\ calls[1].pc # "done" ~> calls[1].pc = "done"

\* get_parallel_groups has returned three groups.
C24_Witness ==
    /\ IsCallOf("get_parallel_groups")
    /\ TheCall.pc = "done"
    /\ Len(TheCall.result) = 3


\* The chains of direct dependencies that start at t and end at a task
\* without dependencies, in a graph without a cycle.
RECURSIVE ChainsFrom(_, _)
ChainsFrom(g, t) ==
    IF g[t] = {} THEN {<<t>>}
    ELSE UNION {{<<t>> \o chain : chain \in ChainsFrom(g, d)} : d \in g[t]}

\* C23: for every map returned by resolve_dependencies and every task t, the
\* level get_task_levels gives t is the number of edges of the longest chain
\* of direct dependencies from t to a task with no dependencies.
C23_LevelIsLongestChain ==
    task_levels # NotCalled =>
        \A t \in KeySet(dependency_map) :
            task_levels[1].val[t] =
                SetMax({Len(chain) - 1 : chain \in ChainsFrom(MapGraph(dependency_map), t)})

\* A task with a chain of one edge and a chain of two, the long one through
\* its last dependency.
C23_Witness ==
    /\ task_levels # NotCalled
    /\ \E t \in KeySet(dependency_map) :
          LET deps == dependency_map.val[t]
          IN /\ Len(deps) = 2
             /\ task_levels[1].val[deps[1]] = 0
             /\ task_levels[1].val[deps[2]] = 1

\* The sequence is the concatenation of the groups, each in some order.
RECURSIVE IsConcatenationOf(_, _)
IsConcatenationOf(order, groups) ==
    IF groups = <<>> THEN order = <<>>
    ELSE LET size == Len(Head(groups))
         IN /\ Len(order) >= size
            /\ IsPermutationOf(SubSeq(order, 1, size), SeqToSet(Head(groups)))
            /\ IsConcatenationOf(SubSeq(order, size + 1, Len(order)), Tail(groups))

\* C25: for every map returned by resolve_dependencies, get_execution_order
\* lists the tasks in non-decreasing order of their get_task_levels level, so
\* that the order is a concatenation of the parallel groups, each group's
\* tasks in some order (a chain comes out dependency first, whatever the
\* input order).
C25_OrderFollowsLevels ==
    execution_order # NotCalled =>
        LET order == execution_order[1]
            levels == get_task_levels(dependency_map)
        IN /\ \A n \in DOMAIN order, k \in DOMAIN order :
                 n < k => levels.val[order[n]] <= levels.val[order[k]]
           /\ IsConcatenationOf(order, get_parallel_groups(dependency_map))


----------------------------------------------------------------------------
(* YamlDagParser: the custom checks of validate *)

Passed == [kind |-> "ok", task |-> "", dep |-> ""]

\* YamlValidationError(f"Task '{task['name']}' depends on non-existent task '{dependency}'")
YamlValidationError(task, dep) == [kind |-> "YamlValidationError", task |-> task, dep |-> dep]

\* Faulty variant of parser_depends_on: a single string is taken for no
\* dependency.
parser_depends_on_ignoring_str(d) ==
    IF d.kind = "list" THEN d.items ELSE <<>>

\* task.get("depends_on", []) with a single string wrapped into a list;
\* None is left as it is (see validate_task_dependencies).
parser_depends_on(d) ==
    IF d.kind = "str" THEN <<d.name>>
    ELSE IF d.kind = "list" THEN d.items
    ELSE <<>>

\* _validate_task_dependencies from the i-th task on: the first dependency
\* that is no task name raises; iterating over None raises TypeError.
RECURSIVE validate_task_dependencies(_, _)
validate_task_dependencies(tasks, i) ==
    IF i > Len(tasks) THEN Passed
    ELSE IF tasks[i].depends_on.kind = "none"
    THEN [kind |-> "TypeError", task |-> "", dep |-> ""]
    ELSE LET depends_on == parser_depends_on(tasks[i].depends_on)
             j == first_missing(depends_on, task_names(tasks), 1)
         IN IF j # 0
            THEN YamlValidationError(tasks[i].name, depends_on[j])
            ELSE validate_task_dependencies(tasks, i + 1)

\* _validate_unique_task_names from the i-th task on, task_names being the
\* list of the names seen so far.
RECURSIVE validate_unique_task_names(_, _, _)
validate_unique_task_names(tasks, i, seen) ==
    IF i > Len(tasks) THEN Passed
    ELSE IF tasks[i].name \in SeqToSet(seen)
    THEN YamlValidationError(tasks[i].name, "")
    ELSE validate_unique_task_names(tasks, i + 1, Append(seen, tasks[i].name))

\* The custom validations of validate, in the order of the code: the check of
\* the names is reached when the check of the dependencies passed.
custom_validations(dag_spec) ==
    LET tasks == get_tasks_config(dag_spec)
        dependencies_check == validate_task_dependencies(tasks, 1)
    IN [dependencies_check |-> dependencies_check,
        names_check |-> IF dependencies_check.kind = "ok"
                        THEN validate_unique_task_names(tasks, 1, <<>>)
                        ELSE [kind |-> "not reached", task |-> "", dep |-> ""]]

\* parser.validate(dag_spec), after the schema
ParserValidate ==
    /\ validated = NotCalled
    /\ validated' = <<custom_validations([tasks |-> tasks_config])>>
    /\ UNCHANGED <<callerVars, givenVars, setup, spec_valid, calls>>

NextParser ==
    \/ ParserValidate
    \/ ResolveDependencies

SpecParser == InitDuplicates /\ [][NextParser]_vars

\* C29: a task list that passes the parser's _validate_task_dependencies and
\* _validate_unique_task_names has unique names and does not make
\* resolve_dependencies fail with MissingTaskError; and on lists whose
\* depends_on fields are strings or lists (or absent), the parser's
\* dependency check rejects exactly the lists on which resolve_dependencies
\* raises MissingTaskError, naming the same task and the same dependency.
C29_ParserAgreesWithResolver ==
    (validated # NotCalled /\ resolved # NotCalled) =>
        /\ (validated[1].dependencies_check.kind = "ok" /\ validated[1].names_check.kind = "ok") =>
              /\ Cardinality(task_names(tasks_config)) = Len(tasks_config)
              /\ Outcome.kind # "MissingTaskError"
        /\ (\A i \in DOMAIN tasks_config : tasks_config[i].depends_on.kind # "none") =>
              /\ validated[1].dependencies_check.kind = "YamlValidationError"
                    <=> Outcome.kind = "MissingTaskError"
              /\ Outcome.kind = "MissingTaskError" =>
                    /\ validated[1].dependencies_check.task = Outcome.task
                    /\ validated[1].dependencies_check.dep = Outcome.dep

\* Both reject a list with shared names whose second record names an
\* undeclared task by a single string.
C29_Witness ==
    /\ validated # NotCalled
    /\ resolved # NotCalled
    /\ Outcome.kind = "MissingTaskError"
    /\ validated[1].dependencies_check.kind = "YamlValidationError"
    /\ Len(tasks_config) >= 2
    /\ tasks_config[1].name = tasks_config[2].name
    /\ tasks_config[2].depends_on.kind = "str"
    /\ Outcome.dep = tasks_config[2].depends_on.name

====
